---- MODULE Spec2Model ----
(***************************************************************************)
(* Board / piece simulation and frame timing of the falling-block game.    *)
(* The model follows src/unnamed/part_000 (the full variant: 7-bag queue,  *)
(* hold, hard drop, DAS/ARR, lock delay).  JavaScript arrays are 0-based,  *)
(* TLA+ sequences 1-based: arena[ay][ax] of the code is arena[ay+1][ax+1]  *)
(* here, and the same for the shape matrix and the bag.  All times are in  *)
(* milliseconds.  Every function of the code is an operator from a state   *)
(* record to a state record, composed in the order of the code's calls.    *)
(***************************************************************************)
EXTENDS Integers, Sequences, FiniteSets, TLC

(* ---------------- program constants ---------------- *)
COLS == 12
ROWS == 20
DAS_DELAY == 160
ARR == 60
LOCK_DELAY == 500
SOFT_DROP_MULT == 20
QUEUE_SIZE == 5
gravityCPS == 1

(* ---------------- bounds of the exploration ---------------- *)
\* Math.random() is explored over the values n/RandDen, n in 0..RandDen-1.
RandDen == 2
\* Spec: pieces merged, input events and frames per behaviour.
MaxLocks == 1
MaxInputs == 2
MaxFrames == 5
\* SpecLong: a long game of hard drops with a few other events.
MaxLocksLong == 14
MaxRestartsLong == 1
MaxLocksHold == 2
MaxInputsHold == 3
MaxFramesHold == 3
MaxLocksOver == 12
MaxInputsOver == 2
MaxFramesOver == 1
MaxInputsHoist == 3
MaxLocksClear == 2
MaxInputsClear == 2
MaxLinesClear == 9
MaxInputsDas == 4
MaxFramesDas == 4
MaxLocksSwap == 1
MaxInputsGround == 3
MaxFramesGround == 2
MaxLocksGround == 1
MaxInputsSimple == 3
MaxFramesSimple == 2
MaxLocksSimple == 2
MaxInputsSwap == 3
\* SpecPure: the inputs of the pure functions.
MaxTurns == 1
MaxStack == 2
MaxLines == 11
MaxCalls == 4
MaxWell == 5

Kinds == {"I", "L", "J", "O", "T", "S", "Z"}
NoKind == "none"

\* "ILJOTSZ".split('')
BagOrder == <<"I", "L", "J", "O", "T", "S", "Z">>

PIECE_IDS == [k \in Kinds |->
    CASE k = "I" -> 1 [] k = "O" -> 2 [] k = "T" -> 3 [] k = "S" -> 4
      [] k = "Z" -> 5 [] k = "J" -> 6 [] k = "L" -> 7]

\* Object.keys(PIECE_IDS)[Object.values(PIECE_IDS).indexOf(id)]
kindOfId(id) == CHOOSE k \in Kinds : PIECE_IDS[k] = id

createMatrix(w, h) == [y \in 1..h |-> [x \in 1..w |-> 0]]

\* A variant whose I is five cells long.
createPieceLongI(type) ==
    CASE type = "T" -> << <<0,1,0>>, <<1,1,1>>, <<0,0,0>> >>
      [] type = "O" -> << <<1,1>>, <<1,1>> >>
      [] type = "L" -> << <<0,0,1>>, <<1,1,1>>, <<0,0,0>> >>
      [] type = "J" -> << <<1,0,0>>, <<1,1,1>>, <<0,0,0>> >>
      [] type = "I" -> << <<0,0,0,0,0>>, <<1,1,1,1,1>>, <<0,0,0,0,0>>,
                          <<0,0,0,0,0>>, <<0,0,0,0,0>> >>
      [] type = "S" -> << <<0,1,1>>, <<1,1,0>>, <<0,0,0>> >>
      [] type = "Z" -> << <<1,1,0>>, <<0,1,1>>, <<0,0,0>> >>

createPiece(type) ==
    CASE type = "T" -> << <<0,1,0>>, <<1,1,1>>, <<0,0,0>> >>
      [] type = "O" -> << <<1,1>>, <<1,1>> >>
      [] type = "L" -> << <<0,0,1>>, <<1,1,1>>, <<0,0,0>> >>
      [] type = "J" -> << <<1,0,0>>, <<1,1,1>>, <<0,0,0>> >>
      [] type = "I" -> << <<0,0,0,0>>, <<1,1,1,1>>, <<0,0,0,0>>, <<0,0,0,0>> >>
      [] type = "S" -> << <<0,1,1>>, <<1,1,0>>, <<0,0,0>> >>
      [] type = "Z" -> << <<1,1,0>>, <<0,1,1>>, <<0,0,0>> >>

\* for (y) for (x) if (matrix[y][x]) matrix[y][x] = id
stamp(matrix, id) ==
    [y \in 1..Len(matrix) |->
        [x \in 1..Len(matrix[y]) |-> IF matrix[y][x] # 0 THEN id ELSE 0]]

Reverse(s) == [i \in 1..Len(s) |-> s[Len(s) + 1 - i]]

Swap(s, i, j) == [s EXCEPT ![i] = s[j], ![j] = s[i]]

(* ---------------- 7-bag ---------------- *)
\* One call of Math.random(): the value r / RandDen.  shuffleBag draws six.
RandomStreams == {[i \in 1..6 |-> n] : n \in 0..(RandDen - 1)}

RECURSIVE shuffleLoop(_, _, _)
shuffleLoop(bag, i, rnd) ==
    \* i is the code's 0-based loop index, from bag.length - 1 down to 1
    IF i <= 0 THEN bag
    ELSE LET j == (rnd[i] * (i + 1)) \div RandDen
         IN shuffleLoop(Swap(bag, i + 1, j + 1), i - 1, rnd)

shuffleBag(rnd) == shuffleLoop(BagOrder, Len(BagOrder) - 1, rnd)

(* ---------------- collision ---------------- *)
\* The double loop of collide, cell by cell in the code's order, with its
\* early returns; k numbers the cells of the matrix row by row.
RECURSIVE collideFrom(_, _, _, _, _)
collideFrom(a, playerX, playerY, matrix, k) ==
    LET n == Len(matrix) IN
    IF k >= n * n THEN FALSE
    ELSE LET y == k \div n
             x == k % n
             ax == x + playerX
             ay == y + playerY
         IN IF matrix[y + 1][x + 1] = 0
              THEN collideFrom(a, playerX, playerY, matrix, k + 1)
            ELSE IF ax < 0 \/ ax >= COLS \/ ay >= ROWS THEN TRUE
            ELSE IF ay >= 0 /\ a[ay + 1][ax + 1] # 0 THEN TRUE
            ELSE collideFrom(a, playerX, playerY, matrix, k + 1)

\* Mutant: the top of the board taken for a wall (a cell above it collides).
collideTopWall(a, playerX, playerY, matrix) ==
    \/ collideFrom(a, playerX, playerY, matrix, 0)
    \/ \E y \in 1..Len(matrix), x \in 1..Len(matrix) :
          matrix[y][x] # 0 /\ y - 1 + playerY < 0

collide(a, playerX, playerY, matrix) == collideFrom(a, playerX, playerY, matrix, 0)

(* ---------------- rotation ---------------- *)
\* [matrix[x][y], matrix[y][x]] = [matrix[y][x], matrix[x][y]]
swapCells(matrix, y, x) ==
    [matrix EXCEPT ![x + 1][y + 1] = matrix[y + 1][x + 1],
                   ![y + 1][x + 1] = matrix[x + 1][y + 1]]

\* for (y = 0; y < length; ++y) for (x = 0; x < y; ++x) swap
RECURSIVE transposeLoop(_, _, _)
transposeLoop(matrix, y, x) ==
    IF y >= Len(matrix) THEN matrix
    ELSE IF x >= y THEN transposeLoop(matrix, y + 1, 0)
    ELSE transposeLoop(swapCells(matrix, y, x), y, x + 1)

\* Mutant: the outer loop stops one row early (y < length - 1).
transposeShort(matrix) ==
    [y \in 1..Len(matrix) |-> [x \in 1..Len(matrix) |->
        IF y < Len(matrix) /\ x < Len(matrix) THEN matrix[x][y] ELSE matrix[y][x]]]

transpose(matrix) == transposeLoop(matrix, 0, 0)

\* transpose in place, then reverse each row (dir > 0) or the row order

rotateMatrix(matrix, dir) ==
    LET t == transpose(matrix)
    IN IF dir > 0 THEN [y \in 1..Len(t) |-> Reverse(t[y])] ELSE Reverse(t)

(* ---------------- program state ---------------- *)
VARIABLES
    loaded,           \* the script has run to the end of init()
    arena,            \* ROWS x COLS cells, 0 empty, 1..7 a piece id
    player,           \* [x, y, matrix, id]; matrix <<>> is null
    nextQueue,        \* lookahead queue of kinds
    bag,              \* refillQueue.bag (<<>> is null) and refillQueue.index
    holdPiece, holdUsed,
    score, lines, level, highscore,
    gameOver, paused,
    lockTimer, onGround, dropAccumulator,
    soft,             \* keyState.soft
    dasState,         \* [left, right, nextMoveIn]: nextMoveAt - now, floored at 0
    timers,           \* pending setTimeout(resetGame, 800) callbacks
    ghost,            \* history of the run, read by the properties only
    fn                \* pure-function harness: the call and its result

vars == <<loaded, arena, player, nextQueue, bag, holdPiece, holdUsed, score,
          lines, level, highscore, gameOver, paused, lockTimer, onGround,
          dropAccumulator, soft, dasState, timers, ghost, fn>>

\* The program state as one record, so that the code's functions compose.
St == [arena |-> arena, player |-> player, nextQueue |-> nextQueue, bag |-> bag,
       holdPiece |-> holdPiece, holdUsed |-> holdUsed, score |-> score,
       lines |-> lines, level |-> level, highscore |-> highscore,
       gameOver |-> gameOver, paused |-> paused, lockTimer |-> lockTimer,
       onGround |-> onGround, dropAccumulator |-> dropAccumulator, soft |-> soft,
       dasState |-> dasState, timers |-> timers, ghost |-> ghost]

Commit(s) ==
    /\ arena' = s.arena /\ player' = s.player /\ nextQueue' = s.nextQueue
    /\ bag' = s.bag /\ holdPiece' = s.holdPiece /\ holdUsed' = s.holdUsed
    /\ score' = s.score /\ lines' = s.lines /\ level' = s.level
    /\ highscore' = s.highscore /\ gameOver' = s.gameOver /\ paused' = s.paused
    /\ lockTimer' = s.lockTimer /\ onGround' = s.onGround
    /\ dropAccumulator' = s.dropAccumulator /\ soft' = s.soft
    /\ dasState' = s.dasState /\ timers' = s.timers
    /\ ghost' = [s.ghost EXCEPT !.best = IF s.score > @ THEN s.score ELSE @]

\* The history of the run, read by the properties only.
\*   delivered   kinds handed out by spawnPlayer since init or the last resetGame
\*   locks, spawns, resets, inputs, frames   counters
\*   cleared     the count of the last sweep
\*   sinceMove   unpaused frame time since the active piece's last successful
\*               move or rotation, capped at LOCK_DELAY (-1: none yet)
\*   discarded   lockTimer thrown away by that move or rotation
\*   locked, lockAge, lockTime, lockDiscarded   the last frame locked the
\*               piece; sinceMove, lockTimer and discarded at that lock
\*   delta, auto, autoMoved   the last frame's time, its DAS move and its success
\*   dropped, dropGround, dropTimer   the last hard drop: its distance, and
\*               onGround and lockTimer before it
\*   denied, swaps   holdSwap calls refused by holdUsed; swaps with the slot
\*   stored, best   the highscore read from storage; the largest score seen
\*   held, autoHeld, sinceAuto, autoGap   frame time each arrow key has been
\*               down (-1: up), capped at DAS_DELAY; that time for the key of
\*               the last automatic move; frame time since the last automatic
\*               move, capped at ARR, and its value at the move after it
\*   lockRested  the piece merged by the last lock-delay lock was blocked one
\*               row down
\*   overwrote, outside, thrown   single-file variants: a merge wrote onto an
\*               occupied cell, beside the board, or threw below it
\*   op          the last operation
NoGhost == [delivered |-> <<>>, locks |-> 0, spawns |-> 0, resets |-> 0,
            inputs |-> 0, frames |-> 0, cleared |-> 0,
            sinceMove |-> -1, discarded |-> 0,
            locked |-> FALSE, lockAge |-> -1, lockTime |-> 0, lockDiscarded |-> 0,
            delta |-> 0, auto |-> 0, autoMoved |-> FALSE,
            held |-> [left |-> -1, right |-> -1],
            autoHeld |-> 0, sinceAuto |-> -1, autoGap |-> -1,
            overwrote |-> FALSE, outside |-> FALSE, thrown |-> FALSE,
            lockRested |-> TRUE,
            dropped |-> -1, dropGround |-> FALSE, dropTimer |-> 0,
            denied |-> 0, swaps |-> 0, stored |-> 0, best |-> 0, op |-> "none"]

Min(a, b) == IF a < b THEN a ELSE b
Max(a, b) == IF a > b THEN a ELSE b

(* ---------------- queue ---------------- *)
RECURSIVE refillQueue(_, _)
refillQueue(s, rnd) ==
    IF Len(s.nextQueue) >= QUEUE_SIZE THEN s
    ELSE LET b == IF s.bag.bag = <<>> \/ s.bag.index >= Len(s.bag.bag)
                    THEN [bag |-> shuffleBag(rnd), index |-> 0]
                    ELSE s.bag
         IN refillQueue([s EXCEPT !.nextQueue = Append(@, b.bag[b.index + 1]),
                                  !.bag = [b EXCEPT !.index = @ + 1]], rnd)

(* ---------------- merge / sweep / score ---------------- *)
\* The double loop of mergeToArena over the cells of player.matrix, k as in
\* collideFrom; a cell outside the board is skipped.
\* A variant that also skips the cells of row 0 (ay > 0).
RECURSIVE mergeFromBelowTop(_, _, _)
mergeFromBelowTop(a, p, k) ==
    LET n == Len(p.matrix) IN
    IF k >= n * n THEN a
    ELSE LET y == k \div n
             x == k % n
             ax == x + p.x
             ay == y + p.y
         IN IF p.matrix[y + 1][x + 1] = 0 THEN mergeFromBelowTop(a, p, k + 1)
            ELSE IF ay > 0 /\ ay < ROWS /\ ax >= 0 /\ ax < COLS
              THEN mergeFromBelowTop(
                       [a EXCEPT ![ay + 1][ax + 1] = p.matrix[y + 1][x + 1]],
                       p, k + 1)
            ELSE mergeFromBelowTop(a, p, k + 1)

RECURSIVE mergeFrom(_, _, _)
mergeFrom(a, p, k) ==
    LET n == Len(p.matrix) IN
    IF k >= n * n THEN a
    ELSE LET y == k \div n
             x == k % n
             ax == x + p.x
             ay == y + p.y
         IN IF p.matrix[y + 1][x + 1] = 0 THEN mergeFrom(a, p, k + 1)
            ELSE IF ay >= 0 /\ ay < ROWS /\ ax >= 0 /\ ax < COLS
              THEN mergeFrom([a EXCEPT ![ay + 1][ax + 1] = p.matrix[y + 1][x + 1]],
                             p, k + 1)
            ELSE mergeFrom(a, p, k + 1)

mergeToArena(s) ==
    [s EXCEPT !.arena = mergeFrom(s.arena, s.player, 0), !.ghost.locks = @ + 1]

emptyRow == [x \in 1..COLS |-> 0]

\* arena.splice(y, 1); arena.unshift(new Array(COLS).fill(0))
removeRow(a, y) == <<emptyRow>> \o SubSeq(a, 1, y) \o SubSeq(a, y + 2, Len(a))

\* Mutant: no y++ after a removal, so the row that moved down is skipped.
RECURSIVE sweepLoopNoRewind(_, _, _)
sweepLoopNoRewind(a, y, cleared) ==
    IF y < 0 THEN <<a, cleared>>
    ELSE IF \E x \in 1..COLS : a[y + 1][x] = 0
      THEN sweepLoopNoRewind(a, y - 1, cleared)
    ELSE sweepLoopNoRewind(removeRow(a, y), y - 1, cleared + 1)

\* A variant that leaves the loop after the first removal.
RECURSIVE sweepLoopFirstOnly(_, _, _)
sweepLoopFirstOnly(a, y, cleared) ==
    IF y < 0 THEN <<a, cleared>>
    ELSE IF \E x \in 1..COLS : a[y + 1][x] = 0
      THEN sweepLoopFirstOnly(a, y - 1, cleared)
    ELSE <<removeRow(a, y), cleared + 1>>

\* outer: for (y = ROWS - 1; y >= 0; --y), with y++ after a removal.
\* Result <<arena, cleared>>.
RECURSIVE sweepLoop(_, _, _)
sweepLoop(a, y, cleared) ==
    IF y < 0 THEN <<a, cleared>>
    ELSE IF \E x \in 1..COLS : a[y + 1][x] = 0 THEN sweepLoop(a, y - 1, cleared)
    ELSE sweepLoop(removeRow(a, y), y, cleared + 1)

lineScores == <<0, 40, 100, 300, 1200>>

\* lineScores[cleared] || 0
lineScore(cleared) == IF cleared + 1 <= Len(lineScores) THEN lineScores[cleared + 1] ELSE 0

\* Mutant: the level is recomputed before the score is awarded.
sweepLevelFirst(s) ==
    LET r == sweepLoop(s.arena, ROWS - 1, 0)
        cleared == r[2]
        s1 == [s EXCEPT !.arena = r[1], !.ghost.cleared = cleared]
    IN IF cleared > 0
         THEN LET ln == s.lines + cleared
                  sc == s.score + lineScore(cleared) * ((ln \div 10) + 1)
              IN [s1 EXCEPT !.score = sc, !.lines = ln, !.level = ln \div 10,
                            !.highscore = IF sc > @ THEN sc ELSE @]
         ELSE s1

\* A variant that derives the level from the lines before the clear.
sweepLevelStale(s) ==
    LET r == sweepLoop(s.arena, ROWS - 1, 0)
        cleared == r[2]
        s1 == [s EXCEPT !.arena = r[1], !.ghost.cleared = cleared]
    IN IF cleared > 0
         THEN LET sc == s.score + lineScore(cleared) * (s.level + 1)
                  ln == s.lines + cleared
              IN [s1 EXCEPT !.score = sc, !.lines = ln, !.level = s.lines \div 10,
                            !.highscore = IF sc > @ THEN sc ELSE @]
         ELSE s1

\* A variant that never raises the highscore.
sweepNoHighscore(s) ==
    LET r == sweepLoop(s.arena, ROWS - 1, 0)
        cleared == r[2]
        s1 == [s EXCEPT !.arena = r[1], !.ghost.cleared = cleared]
    IN IF cleared > 0
         THEN LET sc == s.score + lineScore(cleared) * (s.level + 1)
                  ln == s.lines + cleared
              IN [s1 EXCEPT !.score = sc, !.lines = ln, !.level = ln \div 10]
         ELSE s1

sweep(s) ==
    LET r == sweepLoop(s.arena, ROWS - 1, 0)
        cleared == r[2]
        s1 == [s EXCEPT !.arena = r[1], !.ghost.cleared = cleared]
    IN IF cleared > 0
         THEN LET sc == s.score + lineScore(cleared) * (s.level + 1)
                  ln == s.lines + cleared
              IN [s1 EXCEPT !.score = sc, !.lines = ln, !.level = ln \div 10,
                            !.highscore = IF sc > @ THEN sc ELSE @]
         ELSE s1

(* ---------------- player lifecycle ---------------- *)
spawnX(matrix) == (COLS \div 2) - (Len(matrix[1]) \div 2)

\* spawnPlayer as assigned in finalizeSetup (the declaration at the top of the
\* file is the same code without the game-over test).
spawnPlayer(s, rnd) ==
    LET s1 == refillQueue(s, rnd)
        type == Head(s1.nextQueue)
        s2 == refillQueue([s1 EXCEPT !.nextQueue = Tail(@)], rnd)
        id == PIECE_IDS[type]
        matrix == stamp(createPiece(type), id)
        s3 == [s2 EXCEPT !.player = [x |-> spawnX(matrix), y |-> -1,
                                      matrix |-> matrix, id |-> id],
                         !.holdUsed = FALSE, !.lockTimer = 0, !.onGround = FALSE,
                         !.ghost.delivered = Append(@, type),
                         !.ghost.spawns = @ + 1,
                         !.ghost.sinceMove = -1, !.ghost.discarded = 0]
    IN IF collide(s3.arena, s3.player.x, s3.player.y, s3.player.matrix)
         THEN [s3 EXCEPT !.gameOver = TRUE, !.timers = @ + 1]
         ELSE s3

\* while (!collide(arena, x, floor(y + drop + 1), matrix)) drop++
\* A variant that probes one row too far and stops one row short.
RECURSIVE dropDistanceShort(_, _, _)
dropDistanceShort(a, p, drop) ==
    IF collide(a, p.x, p.y + drop + 2, p.matrix) THEN drop
    ELSE dropDistanceShort(a, p, drop + 1)

RECURSIVE dropDistance(_, _, _)
dropDistance(a, p, drop) ==
    IF collide(a, p.x, p.y + drop + 1, p.matrix) THEN drop
    ELSE dropDistance(a, p, drop + 1)

hardDrop(s, rnd) ==
    IF s.player.matrix = <<>> \/ s.gameOver \/ s.paused THEN s
    ELSE LET drop == dropDistance(s.arena, s.player, 0)
             s1 == [s EXCEPT !.player.y = @ + drop]
             s2 == spawnPlayer(sweep(mergeToArena(s1)), rnd)
         IN [s2 EXCEPT !.dropAccumulator = 0,
                       !.ghost.dropped = drop, !.ghost.dropGround = s.onGround,
                       !.ghost.dropTimer = s.lockTimer]

\* A variant without the holdUsed guard.
holdSwapAlways(s, rnd) ==
    IF s.player.matrix = <<>> \/ s.gameOver \/ s.paused THEN s
    ELSE IF s.holdPiece = NoKind
      THEN LET s1 == [s EXCEPT !.holdPiece = kindOfId(s.player.id)]
           IN [spawnPlayer(s1, rnd) EXCEPT !.holdUsed = TRUE]
    ELSE LET curType == kindOfId(s.player.id)
             holdType == s.holdPiece
             id == PIECE_IDS[holdType]
             matrix == stamp(createPiece(holdType), id)
         IN [s EXCEPT !.holdPiece = curType,
                      !.player = [x |-> spawnX(matrix), y |-> -1,
                                  matrix |-> matrix, id |-> id],
                      !.holdUsed = TRUE,
                      !.ghost.sinceMove = -1, !.ghost.discarded = 0,
                      !.ghost.swaps = @ + 1]

\* A variant that tests the swapped-in piece as spawnPlayer does.
holdSwapValidates(s, rnd) ==
    IF s.player.matrix = <<>> \/ s.holdUsed \/ s.gameOver \/ s.paused
      THEN IF s.player.matrix # <<>> /\ s.holdUsed /\ ~s.gameOver /\ ~s.paused
             THEN [s EXCEPT !.ghost.denied = @ + 1]
             ELSE s
    ELSE IF s.holdPiece = NoKind
      THEN LET s1 == [s EXCEPT !.holdPiece = kindOfId(s.player.id)]
           IN [spawnPlayer(s1, rnd) EXCEPT !.holdUsed = TRUE]
    ELSE LET curType == kindOfId(s.player.id)
             holdType == s.holdPiece
             id == PIECE_IDS[holdType]
             matrix == stamp(createPiece(holdType), id)
             over == collide(s.arena, spawnX(matrix), -1, matrix)
         IN [s EXCEPT !.holdPiece = curType,
                      !.player = [x |-> spawnX(matrix), y |-> -1,
                                  matrix |-> matrix, id |-> id],
                      !.holdUsed = TRUE,
                      !.gameOver = over,
                      !.timers = IF over THEN @ + 1 ELSE @,
                      !.ghost.sinceMove = -1, !.ghost.discarded = 0,
                      !.ghost.swaps = @ + 1]

holdSwap(s, rnd) ==
    IF s.player.matrix = <<>> \/ s.holdUsed \/ s.gameOver \/ s.paused
      THEN IF s.player.matrix # <<>> /\ s.holdUsed /\ ~s.gameOver /\ ~s.paused
             THEN [s EXCEPT !.ghost.denied = @ + 1]
             ELSE s
    ELSE IF s.holdPiece = NoKind
      THEN LET s1 == [s EXCEPT !.holdPiece = kindOfId(s.player.id)]
           IN [spawnPlayer(s1, rnd) EXCEPT !.holdUsed = TRUE]
    ELSE LET curType == kindOfId(s.player.id)
             holdType == s.holdPiece
             id == PIECE_IDS[holdType]
             matrix == stamp(createPiece(holdType), id)
         IN [s EXCEPT !.holdPiece = curType,
                      !.player = [x |-> spawnX(matrix), y |-> -1,
                                  matrix |-> matrix, id |-> id],
                      !.holdUsed = TRUE,
                      !.ghost.sinceMove = -1, !.ghost.discarded = 0,
                      !.ghost.swaps = @ + 1]

(* ---------------- moves and rotation ---------------- *)
\* A variant whose move leaves the lock delay running.
moveOnceNoReset(s, dir) ==
    IF s.player.matrix = <<>> \/ s.paused \/ s.gameOver THEN s
    ELSE IF collide(s.arena, s.player.x + dir, s.player.y, s.player.matrix) THEN s
    ELSE [s EXCEPT !.player.x = @ + dir,
                   !.ghost.sinceMove = 0, !.ghost.discarded = s.lockTimer]

\* A variant that keeps the new column when it collides.
moveOnceNoRevert(s, dir) ==
    IF s.player.matrix = <<>> \/ s.paused \/ s.gameOver THEN s
    ELSE IF collide(s.arena, s.player.x + dir, s.player.y, s.player.matrix)
      THEN [s EXCEPT !.player.x = @ + dir]
    ELSE [s EXCEPT !.player.x = @ + dir, !.lockTimer = 0, !.onGround = FALSE,
                   !.ghost.sinceMove = 0, !.ghost.discarded = s.lockTimer]

moveOnce(s, dir) ==
    IF s.player.matrix = <<>> \/ s.paused \/ s.gameOver THEN s
    ELSE IF collide(s.arena, s.player.x + dir, s.player.y, s.player.matrix) THEN s
    ELSE [s EXCEPT !.player.x = @ + dir, !.lockTimer = 0, !.onGround = FALSE,
                   !.ghost.sinceMove = 0, !.ghost.discarded = s.lockTimer]

\* A variant that tries the wide offsets before the narrow ones.
kicksWideFirst == <<0, 2, -2, 1, -1>>

kicks == <<0, 1, -1, 2, -2>>

\* A variant that leaves the rotated shape in place when every offset collides.
RECURSIVE kickFromNoRestore(_, _, _, _)
kickFromNoRestore(s, rotated, originalX, i) ==
    IF i >= Len(kicks) THEN [s EXCEPT !.player.matrix = rotated]
    ELSE IF ~collide(s.arena, originalX + kicks[i + 1], s.player.y, rotated)
      THEN [s EXCEPT !.player.matrix = rotated,
                     !.player.x = originalX + kicks[i + 1],
                     !.lockTimer = 0, !.onGround = FALSE,
                     !.ghost.sinceMove = 0, !.ghost.discarded = s.lockTimer]
    ELSE kickFromNoRestore(s, rotated, originalX, i + 1)

\* for (i = 0; i < kicks.length; ++i): the first offset that does not collide
RECURSIVE kickFrom(_, _, _, _)
kickFrom(s, rotated, originalX, i) ==
    IF i >= Len(kicks) THEN s
    ELSE IF ~collide(s.arena, originalX + kicks[i + 1], s.player.y, rotated)
      THEN [s EXCEPT !.player.matrix = rotated,
                     !.player.x = originalX + kicks[i + 1],
                     !.lockTimer = 0, !.onGround = FALSE,
                     !.ghost.sinceMove = 0, !.ghost.discarded = s.lockTimer]
    ELSE kickFrom(s, rotated, originalX, i + 1)

rotatePlayer(s, dir) ==
    IF s.player.matrix = <<>> THEN s
    ELSE kickFrom(s, rotateMatrix(s.player.matrix, dir), s.player.x, 0)

(* ---------------- DAS ---------------- *)
\* dasState.holdStart is written and never read: it is left out.
dasStart(s, dir) ==
    [s EXCEPT !.dasState = [@ EXCEPT ![dir] = TRUE, !.nextMoveIn = DAS_DELAY],
              !.ghost.held[dir] = 0]

dasStop(s, dir) ==
    [s EXCEPT !.dasState = [@ EXCEPT ![dir] = FALSE, !.nextMoveIn = 0],
              !.ghost.held[dir] = -1]

(* ---------------- frame update ---------------- *)
\* 1000 / Math.max(0.001, gravity), gravity = gravityCPS (* SOFT_DROP_MULT)
msPerCell(s) ==
    1000 \div (IF s.soft THEN gravityCPS * SOFT_DROP_MULT ELSE gravityCPS)

\* while (dropAccumulator >= msPerCell) { ... }
RECURSIVE gravityLoop(_)
gravityLoop(s) ==
    IF s.dropAccumulator < msPerCell(s) THEN s
    ELSE LET s1 == [s EXCEPT !.dropAccumulator = @ - msPerCell(s)]
         IN IF collide(s1.arena, s1.player.x, s1.player.y + 1, s1.player.matrix)
              THEN IF ~s1.onGround
                     THEN [s1 EXCEPT !.onGround = TRUE, !.lockTimer = 0]
                     ELSE s1
              ELSE gravityLoop([s1 EXCEPT !.player.y = @ + 1,
                                          !.onGround = FALSE, !.lockTimer = 0])

updateGravity(s, delta) ==
    gravityLoop([s EXCEPT !.dropAccumulator = @ + delta])

\* DAS auto-repeat: now >= dasState.nextMoveAt
updateDAS(s) ==
    IF (s.dasState.left \/ s.dasState.right) /\ s.dasState.nextMoveIn <= 0
      THEN LET dir == IF s.dasState.left THEN -1 ELSE 1
               s1 == moveOnce(s, dir)
           IN [s1 EXCEPT !.dasState.nextMoveIn = ARR,
                         !.ghost.auto = dir,
                         !.ghost.autoHeld =
                             s.ghost.held[IF dir < 0 THEN "left" ELSE "right"],
                         !.ghost.autoGap = s.ghost.sinceAuto,
                         !.ghost.sinceAuto = 0,
                         !.ghost.autoMoved = (s1.player.x # s.player.x)]
      ELSE s

\* lock delay handling
\* A variant that locks only once lockTimer exceeds LOCK_DELAY.
updateLockStrict(s, delta, rnd) ==
    IF s.onGround
      THEN LET s1 == [s EXCEPT !.lockTimer = @ + delta]
           IN IF s1.lockTimer > LOCK_DELAY
                THEN LET s2 == spawnPlayer(sweep(mergeToArena(s1)), rnd)
                     IN [s2 EXCEPT !.dropAccumulator = 0, !.lockTimer = 0,
                                   !.onGround = FALSE,
                                   !.ghost.lockAge = s.ghost.sinceMove,
                                   !.ghost.lockTime = s1.lockTimer,
                                   !.ghost.lockDiscarded = s.ghost.discarded,
                                   !.ghost.locked = TRUE]
                ELSE s1
      ELSE [s EXCEPT !.lockTimer = 0]

updateLock(s, delta, rnd) ==
    IF s.onGround
      THEN LET s1 == [s EXCEPT !.lockTimer = @ + delta]
           IN IF s1.lockTimer >= LOCK_DELAY
                THEN LET s2 == spawnPlayer(sweep(mergeToArena(s1)), rnd)
                     IN [s2 EXCEPT !.dropAccumulator = 0, !.lockTimer = 0,
                                   !.onGround = FALSE,
                                   !.ghost.lockAge = s.ghost.sinceMove,
                                   !.ghost.lockTime = s1.lockTimer,
                                   !.ghost.lockDiscarded = s.ghost.discarded,
                                   !.ghost.lockRested =
                                       collide(s1.arena, s1.player.x,
                                               s1.player.y + 1, s1.player.matrix),
                                   !.ghost.locked = TRUE]
                ELSE s1
      ELSE [s EXCEPT !.lockTimer = 0]

\* update(time) with delta = time - lastTime.  The clock read by the DAS
\* handling (performance.now()) runs whether or not the game is paused.
update(s, delta, rnd) ==
    LET s0 == [s EXCEPT !.dasState.nextMoveIn = Max(0, @ - delta),
                        !.ghost.delta = delta, !.ghost.auto = 0,
                        !.ghost.autoMoved = FALSE, !.ghost.locked = FALSE,
                        !.ghost.held =
                            [d \in {"left", "right"} |->
                                IF @[d] < 0 THEN @[d]
                                ELSE Min(DAS_DELAY, @[d] + delta)],
                        !.ghost.autoHeld = 0, !.ghost.autoGap = -1,
                        !.ghost.sinceAuto =
                            IF @ < 0 THEN @ ELSE Min(ARR, @ + delta)]
    IN IF ~s0.paused /\ ~s0.gameOver
         THEN LET s1 == [s0 EXCEPT !.ghost.sinceMove =
                            IF @ < 0 THEN @ ELSE Min(LOCK_DELAY, @ + delta)]
              IN updateLock(updateDAS(updateGravity(s1, delta)), delta, rnd)
         ELSE s0

(* ---------------- game control ---------------- *)
\* A variant that keeps the board.
resetGameKeepBoard(s, rnd) ==
    LET s1 == [s EXCEPT !.nextQueue = <<>>,
                        !.bag = [bag |-> <<>>, index |-> 0],
                        !.ghost.delivered = <<>>,
                        !.ghost.resets = @ + 1]
        s2 == refillQueue(s1, rnd)
        s3 == [s2 EXCEPT !.score = 0, !.lines = 0, !.level = 0,
                         !.holdPiece = NoKind, !.holdUsed = FALSE,
                         !.gameOver = FALSE]
    IN spawnPlayer(s3, rnd)

resetGame(s, rnd) ==
    LET s1 == [s EXCEPT !.arena = createMatrix(COLS, ROWS),
                        !.nextQueue = <<>>,
                        !.bag = [bag |-> <<>>, index |-> 0],
                        !.ghost.delivered = <<>>,
                        !.ghost.resets = @ + 1]
        s2 == refillQueue(s1, rnd)
        s3 == [s2 EXCEPT !.score = 0, !.lines = 0, !.level = 0,
                         !.holdPiece = NoKind, !.holdUsed = FALSE,
                         !.gameOver = FALSE]
    IN spawnPlayer(s3, rnd)

\* The statements run while the script loads: lines 723-725, finalizeSetup,
\* then init().  Two shuffles can happen: rndA fills the first queue, rndB
\* serves the refill inside the first spawnPlayer.
init(s, rndA, rndB) ==
    LET nobag == [bag |-> <<>>, index |-> 0]
        s1 == refillQueue([s EXCEPT !.bag = nobag], rndA)
        s2 == refillQueue([s1 EXCEPT !.bag = nobag], rndA)
        s3 == refillQueue([s2 EXCEPT !.bag = nobag], rndA)
    IN spawnPlayer(s3, rndB)

(* ---------------- the game as a state machine ---------------- *)
\* Frame times explored (ms between two calls of update).
Deltas == {250, 500}

\* Number(localStorage.getItem(HIGH_SCORE_KEY) || 0)
StoredHighscores == {0}

NoCall == [op |-> "none"]

Init ==
    /\ loaded = FALSE
    /\ arena = createMatrix(COLS, ROWS)
    /\ player = [x |-> 0, y |-> 0, matrix |-> <<>>, id |-> 0]
    /\ nextQueue = <<>>
    /\ bag = [bag |-> <<>>, index |-> 0]
    /\ holdPiece = NoKind /\ holdUsed = FALSE
    /\ score = 0 /\ lines = 0 /\ level = 0
    /\ highscore \in StoredHighscores
    /\ gameOver = FALSE /\ paused = FALSE
    /\ lockTimer = 0 /\ onGround = FALSE /\ dropAccumulator = 0
    /\ soft = FALSE
    /\ dasState = [left |-> FALSE, right |-> FALSE, nextMoveIn |-> 0]
    /\ timers = 0
    /\ ghost = [NoGhost EXCEPT !.stored = highscore]
    /\ fn = NoCall

\* The streams a handler may draw from: a handler that cannot reach
\* shuffleBag reads none, and one stream stands for all.
willShuffle(s) == s.bag.bag = <<>> \/ s.bag.index >= Len(s.bag.bag)
StreamsFor(s) ==
    IF willShuffle(s) THEN RandomStreams
    ELSE {CHOOSE r \in RandomStreams : TRUE}

\* An event: the handler's result, named.
Event(name, s) ==
    /\ loaded
    /\ Commit([s EXCEPT !.ghost.op = name])
    /\ UNCHANGED <<loaded, fn>>

\* An input event other than the hard drop is counted.
Input(name, s) == Event(name, [s EXCEPT !.ghost.inputs = @ + 1])

Load ==
    /\ ~loaded
    /\ loaded' = TRUE
    /\ \E rndA, rndB \in RandomStreams :
          Commit([init(St, rndA, rndB) EXCEPT !.ghost.op = "init"])
    /\ UNCHANGED fn

dirName(dir) == IF dir < 0 THEN "left" ELSE "right"

\* keydown ArrowLeft / ArrowRight (e.repeat is ignored: the key was up)
KeyDownMove(dir) ==
    /\ ~dasState[dirName(dir)]
    /\ Input("keydown-move", moveOnce(dasStart(St, dirName(dir)), dir))

\* keyup ArrowLeft / ArrowRight
KeyUpMove(dir) ==
    /\ dasState[dirName(dir)]
    /\ Input("keyup-move", dasStop(St, dirName(dir)))

\* left-btn / right-btn
ButtonMove(dir) == Input("button-move", moveOnce(St, dir))

\* keydown / keyup ArrowDown
KeySoft == Input("soft", [St EXCEPT !.soft = ~@])

\* keydown ArrowUp, rotate-btn
KeyRotate == Input("rotate", rotatePlayer(St, 1))

\* keydown " ", hard-btn
KeyHardDrop == \E rnd \in StreamsFor(St) : Event("hardDrop", hardDrop(St, rnd))

\* keydown "c", hold-btn
KeyHold == \E rnd \in StreamsFor(St) : Input("hold", holdSwap(St, rnd))

\* keydown "p", pause-btn
KeyPause == Input("pause", [St EXCEPT !.paused = ~@])

\* keydown Escape
KeyEscape == Input("escape", [St EXCEPT !.paused = TRUE])

\* restart-btn
Restart == \E rnd \in RandomStreams : Input("restart", resetGame(St, rnd))

\* the callback of setTimeout(() => resetGame(), 800)
TimerFire ==
    /\ timers > 0
    /\ \E rnd \in RandomStreams :
          Event("timer", resetGame([St EXCEPT !.timers = @ - 1], rnd))

\* requestAnimationFrame(update)
Frame(delta) ==
    \E rnd \in StreamsFor(St) :
        Event("frame", [update(St, delta, rnd) EXCEPT !.ghost.frames = @ + 1])

\* Play: every input and the frame timing, over the first MaxLocks pieces.
InPlay == ghost.locks < MaxLocks
MayInput == InPlay /\ ghost.inputs < MaxInputs
MayFrame == InPlay /\ ghost.frames < MaxFrames

Next ==
    \/ Load
    \/ (MayInput /\ \E dir \in {-1, 1} : KeyDownMove(dir))
    \/ (MayInput /\ \E dir \in {-1, 1} : KeyUpMove(dir))
    \/ (MayInput /\ \E dir \in {-1, 1} : ButtonMove(dir))
    \/ (MayInput /\ KeySoft)
    \/ (MayInput /\ KeyRotate)
    \/ (MayInput /\ KeyHold)
    \/ (MayInput /\ KeyPause)
    \/ (MayInput /\ KeyEscape)
    \/ (MayInput /\ Restart)
    \/ (InPlay /\ KeyHardDrop)
    \/ (MayFrame /\ \E delta \in Deltas : Frame(delta))

Spec == Init /\ [][Next]_vars

\* A long game: hard drops stack the pieces at the spawn column until a spawn
\* collides; the game-over timer and the restart button reset the game.
NextLong ==
    \/ Load
    \/ (ghost.locks < MaxLocksLong /\ KeyHardDrop)
    \/ (ghost.inputs < MaxRestartsLong /\ Restart)
    \/ TimerFire

SpecLong == Init /\ [][NextLong]_vars

\* setTimeout runs its callback: a pending timer does fire.  This is weak
\* fairness of TimerFire, written out with TimerPending, the states in which
\* a TimerFire step is possible (it always changes timers).
TimerPending == loaded /\ timers > 0
SpecLongFair == SpecLong /\ (<>[]TimerPending => []<><<TimerFire>>_vars)

\* Holding and dropping: the hold, pause and soft-drop keys, hard drops and
\* frames over the first MaxLocksHold pieces.
HoldPlay == ghost.locks < MaxLocksHold
MayHold == HoldPlay /\ ghost.inputs < MaxInputsHold
NextHold ==
    \/ Load
    \/ (MayHold /\ KeyHold)
    \/ (MayHold /\ KeyPause)
    \/ (MayHold /\ KeySoft)
    \/ (HoldPlay /\ KeyHardDrop)
    \/ (HoldPlay /\ ghost.frames < MaxFramesHold /\ \E delta \in Deltas : Frame(delta))

SpecHold == Init /\ [][NextHold]_vars

\* Game over: hard drops stack the pieces until a spawn collides; the inputs
\* and frames then arrive while gameOver is set, until the timer resets.
OverInput == gameOver /\ ghost.inputs < MaxInputsOver
NextOver ==
    \/ Load
    \/ (~gameOver /\ ghost.locks < MaxLocksOver /\ KeyHardDrop)
    \/ (OverInput /\ \E dir \in {-1, 1} : KeyDownMove(dir))
    \/ (OverInput /\ \E dir \in {-1, 1} : KeyUpMove(dir))
    \/ (OverInput /\ \E dir \in {-1, 1} : ButtonMove(dir))
    \/ (OverInput /\ KeySoft)
    \/ (OverInput /\ KeyRotate)
    \/ (OverInput /\ KeyHold)
    \/ (gameOver /\ KeyHardDrop)
    \/ (gameOver /\ ghost.frames < MaxFramesOver /\ \E delta \in Deltas : Frame(delta))
    \/ TimerFire

SpecOver == Init /\ [][NextOver]_vars

(* ---------------- the script as the engine binds its declarations ---------------- *)
\* refillQueue is declared twice at the top level (lines 212 and 726).  Function
\* declarations are bound before any statement runs and the later one wins,
\* so every call of refillQueue() runs the empty body of line 726.  The
\* specifications above read refillQueue as its body of lines 212-220.
refillQueueLater(s, rnd) == s

\* spawnPlayer as assigned in finalizeSetup, calling that refillQueue.  On an
\* empty queue shift() gives undefined, createPiece(undefined) gives null and
\* matrix.length throws: the call ends there with nothing assigned.
spawnPlayerHoisted(s, rnd) ==
    LET s1 == refillQueueLater(s, rnd)
    IN IF s1.nextQueue = <<>> THEN s1
       ELSE LET type == Head(s1.nextQueue)
                s2 == refillQueueLater([s1 EXCEPT !.nextQueue = Tail(@)], rnd)
                id == PIECE_IDS[type]
                matrix == stamp(createPiece(type), id)
                s3 == [s2 EXCEPT !.player = [x |-> spawnX(matrix), y |-> -1,
                                              matrix |-> matrix, id |-> id],
                                 !.holdUsed = FALSE, !.lockTimer = 0,
                                 !.onGround = FALSE,
                                 !.ghost.delivered = Append(@, type),
                                 !.ghost.spawns = @ + 1,
                                 !.ghost.sinceMove = -1, !.ghost.discarded = 0]
            IN IF collide(s3.arena, s3.player.x, s3.player.y, s3.player.matrix)
                 THEN [s3 EXCEPT !.gameOver = TRUE, !.timers = @ + 1]
                 ELSE s3

resetGameHoisted(s, rnd) ==
    LET s1 == [s EXCEPT !.arena = createMatrix(COLS, ROWS),
                        !.nextQueue = <<>>,
                        !.bag = [bag |-> <<>>, index |-> 0],
                        !.ghost.delivered = <<>>,
                        !.ghost.resets = @ + 1]
        s2 == refillQueueLater(s1, rnd)
        s3 == [s2 EXCEPT !.score = 0, !.lines = 0, !.level = 0,
                         !.holdPiece = NoKind, !.holdUsed = FALSE,
                         !.gameOver = FALSE]
    IN spawnPlayerHoisted(s3, rnd)

\* Lines 723-725, finalizeSetup, init(): init() ends where spawnPlayer throws,
\* before requestAnimationFrame(update), so no frame ever runs.
initHoisted(s, rnd) ==
    LET nobag == [bag |-> <<>>, index |-> 0]
        s1 == refillQueueLater([s EXCEPT !.bag = nobag], rnd)
        s2 == refillQueueLater([s1 EXCEPT !.bag = nobag], rnd)
        s3 == refillQueueLater([s2 EXCEPT !.bag = nobag], rnd)
    IN spawnPlayerHoisted(s3, rnd)

LoadHoisted ==
    /\ ~loaded
    /\ loaded' = TRUE
    /\ \E rnd \in StreamsFor(St) :
          Commit([initHoisted(St, rnd) EXCEPT !.ghost.op = "init"])
    /\ UNCHANGED fn

RestartHoisted ==
    \E rnd \in StreamsFor(St) : Input("restart", resetGameHoisted(St, rnd))

\* The event handlers were bound before init() threw and stay bound.
MayHoist == ghost.inputs < MaxInputsHoist
NextHoist ==
    \/ LoadHoisted
    \/ (MayHoist /\ \E dir \in {-1, 1} : KeyDownMove(dir))
    \/ (MayHoist /\ \E dir \in {-1, 1} : KeyUpMove(dir))
    \/ (MayHoist /\ \E dir \in {-1, 1} : ButtonMove(dir))
    \/ (MayHoist /\ KeySoft)
    \/ (MayHoist /\ KeyRotate)
    \/ (MayHoist /\ KeyHold)
    \/ (MayHoist /\ KeyPause)
    \/ (MayHoist /\ KeyEscape)
    \/ (MayHoist /\ RestartHoisted)
    \/ (loaded /\ KeyHardDrop)

SpecHoist == Init /\ [][NextHoist]_vars

(* ---------------- the pure functions on drawn inputs ---------------- *)
RECURSIVE turned(_, _)
turned(matrix, n) == IF n = 0 THEN matrix ELSE turned(rotateMatrix(matrix, 1), n - 1)

\* The stamped shape of each kind, turned clockwise 0..MaxTurns times.
PieceMatrices ==
    {turned(stamp(createPiece(k), PIECE_IDS[k]), n) : k \in Kinds, n \in 0..MaxTurns}

cellId(y, x) == ((y + x) % 7) + 1

\* Rows top..ROWS-1 filled except column hole (hole = -1: no hole).
stackBoard(top, hole) ==
    [y1 \in 1..ROWS |-> [x1 \in 1..COLS |->
        IF y1 - 1 >= top /\ x1 - 1 # hole THEN cellId(y1, x1) ELSE 0]]

CollideBoards ==
    {stackBoard(top, hole) : top \in {0} \cup ((ROWS - MaxStack)..ROWS), hole \in {-1, 5}}

CollideXs == (-3..1) \cup {5} \cup ((COLS - 3)..(COLS - 1))
CollideYs == (-4..0) \cup {8} \cup ((ROWS - 5)..(ROWS - 1))

\* Row y of a stack: full, or with one empty cell at column y % COLS.
stackRow(y, full) ==
    [x1 \in 1..COLS |-> IF ~full /\ x1 - 1 = y % COLS THEN 0 ELSE cellId(y, x1)]

\* Rows above top empty, the rows of F full, the other rows partial.
sweepBoard(top, F) ==
    [y1 \in 1..ROWS |->
        IF y1 - 1 < top THEN emptyRow ELSE stackRow(y1 - 1, (y1 - 1) \in F)]

\* Full rows lie within four consecutive rows, as one merged piece leaves them.
FullRowSets == UNION {SUBSET (w..(w + 3)) : w \in 0..(ROWS - 4)}

RECURSIVE singles(_)
\* The score after k single-row clears from a fresh game.
singles(k) == IF k = 0 THEN 0 ELSE singles(k - 1) + 40 * (((k - 1) \div 10) + 1)

InitGame(a, p) ==
    /\ loaded = FALSE
    /\ arena = a
    /\ player = p
    /\ nextQueue = <<>>
    /\ bag = [bag |-> <<>>, index |-> 0]
    /\ holdPiece = NoKind /\ holdUsed = FALSE
    /\ gameOver = FALSE /\ paused = FALSE
    /\ lockTimer = 0 /\ onGround = FALSE /\ dropAccumulator = 0
    /\ soft = FALSE
    /\ dasState = [left |-> FALSE, right |-> FALSE, nextMoveIn |-> 0]
    /\ timers = 0
    /\ ghost = NoGhost

NoPlayer == [x |-> 0, y |-> 0, matrix |-> <<>>, id |-> 0]

InitCollide ==
    /\ \E a \in CollideBoards, x \in CollideXs, y \in CollideYs, m \in PieceMatrices :
          InitGame(a, [x |-> x, y |-> y, matrix |-> m, id |-> 0])
    /\ score = 0 /\ lines = 0 /\ level = 0 /\ highscore = 0
    /\ fn = [op |-> "collide", calls |-> 0, result |-> FALSE]

InitSweep ==
    /\ \E F \in FullRowSets, top \in {0, 3} : InitGame(sweepBoard(top, F), NoPlayer)
    /\ \E k \in 0..MaxLines, extra \in {0, 50} :
          /\ lines = k /\ level = k \div 10 /\ score = singles(k)
          /\ highscore = singles(k) + extra
    /\ fn = [op |-> "sweep", calls |-> 0, before |-> <<>>]

InitRotate ==
    /\ \E m \in PieceMatrices : InitGame(createMatrix(COLS, ROWS), [NoPlayer EXCEPT !.matrix = m])
    /\ score = 0 /\ lines = 0 /\ level = 0 /\ highscore = 0
    /\ \E dir \in {-1, 1} :
          fn = [op |-> "rotate", calls |-> 0, dir |-> dir, original |-> player.matrix]

InitPure == InitCollide \/ InitSweep \/ InitRotate

CallCollide ==
    /\ fn.op = "collide" /\ fn.calls = 0
    /\ fn' = [fn EXCEPT !.calls = 1,
                         !.result = collide(arena, player.x, player.y, player.matrix)]
    /\ UNCHANGED <<loaded, arena, player, nextQueue, bag, holdPiece, holdUsed,
                   score, lines, level, highscore, gameOver, paused, lockTimer,
                   onGround, dropAccumulator, soft, dasState, timers, ghost>>

CallSweep ==
    /\ fn.op = "sweep" /\ fn.calls = 0
    /\ fn' = [fn EXCEPT !.calls = 1, !.before = St]
    /\ Commit(sweep(St))
    /\ UNCHANGED loaded

CallRotate ==
    /\ fn.op = "rotate" /\ fn.calls < MaxCalls
    /\ fn' = [fn EXCEPT !.calls = @ + 1]
    /\ player' = [player EXCEPT !.matrix = rotateMatrix(@, fn.dir)]
    /\ UNCHANGED <<loaded, arena, nextQueue, bag, holdPiece, holdUsed,
                   score, lines, level, highscore, gameOver, paused, lockTimer,
                   onGround, dropAccumulator, soft, dasState, timers, ghost>>

NextPure == CallCollide \/ CallSweep \/ CallRotate

SpecPure == InitPure /\ [][NextPure]_vars

(* ---------------- a game taken up at a board about to clear ---------------- *)
\* The lowest h rows filled except the columns of G.
gapBoard(h, G) ==
    [y1 \in 1..ROWS |-> [x1 \in 1..COLS |->
        IF y1 - 1 >= ROWS - h /\ (x1 - 1) \notin G THEN cellId(y1, x1) ELSE 0]]

\* A gap for a flat I, for an O, a well four deep, and a well to the top row.
ClearBoards ==
    {gapBoard(1, 4..7), gapBoard(2, {5, 6}), gapBoard(4, {6}), gapBoard(ROWS - 1, {6})}

\* The kind delivered i-th when every shuffle gives the bag b.
cyclic(b, i) == b[((i - 1) % 7) + 1]

\* The state after n locks of a game whose shuffles all gave one bag: the
\* piece just spawned, the queue and the bag position; the board, the lines
\* (with the score of that many single clears) and the stored highscore drawn.
InitClear ==
    /\ loaded = TRUE
    /\ arena \in ClearBoards
    /\ \E rnd \in RandomStreams, n \in 0..6 :
          LET b == shuffleBag(rnd)
              type == cyclic(b, n + 1)
              matrix == stamp(createPiece(type), PIECE_IDS[type])
          IN /\ player = [x |-> spawnX(matrix), y |-> -1,
                          matrix |-> matrix, id |-> PIECE_IDS[type]]
             /\ nextQueue = [i \in 1..QUEUE_SIZE |-> cyclic(b, n + 1 + i)]
             /\ bag = [bag |-> b, index |-> ((n + QUEUE_SIZE) % 7) + 1]
    /\ holdPiece = NoKind /\ holdUsed = FALSE
    /\ \E k \in {0, MaxLinesClear}, stored \in {0, 400} :
          /\ lines = k /\ level = k \div 10 /\ score = singles(k)
          /\ highscore = Max(stored, score)
          /\ ghost = [NoGhost EXCEPT !.stored = stored, !.best = score]
    /\ gameOver = FALSE /\ paused = FALSE
    /\ lockTimer = 0 /\ onGround = FALSE /\ dropAccumulator = 0
    /\ soft = FALSE
    /\ dasState = [left |-> FALSE, right |-> FALSE, nextMoveIn |-> 0]
    /\ timers = 0
    /\ fn = NoCall

MayClear == ghost.inputs < MaxInputsClear
NextClear ==
    \/ (MayClear /\ KeyRotate)
    \/ (MayClear /\ Restart)
    \/ (ghost.locks < MaxLocksClear /\ KeyHardDrop)
    \/ TimerFire

SpecClear == InitClear /\ [][NextClear]_vars

(* ---------------- the arrow keys at frame rate ---------------- *)
\* A frame at the display rate and a late one.
DasDeltas == {20, 100}

NextDas ==
    \/ Load
    \/ (ghost.inputs < MaxInputsDas /\ \E dir \in {-1, 1} : KeyDownMove(dir))
    \/ (ghost.inputs < MaxInputsDas /\ \E dir \in {-1, 1} : KeyUpMove(dir))
    \/ (ghost.frames < MaxFramesDas /\ \E delta \in DasDeltas : Frame(delta))

SpecDas == Init /\ [][NextDas]_vars

(* ---------------- a game taken up with a piece in the hold slot ---------------- *)
\* An empty board, and a board filled to the top row beside a shaft at
\* columns 5 and 6, where of the seven kinds only O and S spawn free.
SwapBoards == {createMatrix(COLS, ROWS), gapBoard(ROWS, {5, 6})}

\* As InitClear, with a fresh game's score and a kind, or none, in the hold
\* slot; the piece just spawned is free where it is.
InitSwap ==
    /\ loaded = TRUE
    /\ arena \in SwapBoards
    /\ \E rnd \in RandomStreams, n \in 0..6 :
          LET b == shuffleBag(rnd)
              type == cyclic(b, n + 1)
              matrix == stamp(createPiece(type), PIECE_IDS[type])
          IN /\ player = [x |-> spawnX(matrix), y |-> -1,
                          matrix |-> matrix, id |-> PIECE_IDS[type]]
             /\ ~collide(arena, player.x, player.y, player.matrix)
             /\ nextQueue = [i \in 1..QUEUE_SIZE |-> cyclic(b, n + 1 + i)]
             /\ bag = [bag |-> b, index |-> ((n + QUEUE_SIZE) % 7) + 1]
    /\ holdPiece \in Kinds \cup {NoKind} /\ holdUsed = FALSE
    /\ score = 0 /\ lines = 0 /\ level = 0 /\ highscore = 0
    /\ ghost = NoGhost
    /\ gameOver = FALSE /\ paused = FALSE
    /\ lockTimer = 0 /\ onGround = FALSE /\ dropAccumulator = 0
    /\ soft = FALSE
    /\ dasState = [left |-> FALSE, right |-> FALSE, nextMoveIn |-> 0]
    /\ timers = 0
    /\ fn = NoCall

MaySwap == ghost.inputs < MaxInputsSwap
NextSwap ==
    \/ (MaySwap /\ KeyHold)
    \/ (MaySwap /\ KeyRotate)
    \/ (MaySwap /\ \E dir \in {-1, 1} : ButtonMove(dir))
    \/ (MaySwap /\ KeyPause)
    \/ (ghost.locks < MaxLocksSwap /\ KeyHardDrop)

SpecSwap == InitSwap /\ [][NextSwap]_vars

(* ---------------- rotatePlayer and mergeToArena on drawn pieces ---------------- *)
\* The identifier stamped into a shape.
idOf(matrix) ==
    CHOOSE v \in 1..7 : \E y, x \in 1..Len(matrix) : matrix[y][x] = v

\* An empty board, and a stack of MaxWell rows with a well at column 5.
PieceBoards == {stackBoard(top, 5) : top \in {ROWS - MaxWell, ROWS}}
PieceXs == (-2)..(COLS - 1)
PieceYs == {-2, -1, 0} \cup ((ROWS - MaxWell - 3)..(ROWS - 1))

\* No occupied cell of the shape is beside the board or below it.
InsideWalls(x, y, matrix) ==
    \A yy, xx \in 1..Len(matrix) :
        matrix[yy][xx] # 0 =>
            (x + xx - 1 >= 0 /\ x + xx - 1 < COLS /\ y + yy - 1 < ROWS)

InitPiece ==
    /\ loaded = FALSE
    /\ arena \in PieceBoards
    /\ \E m \in PieceMatrices, x \in PieceXs, y \in PieceYs :
          /\ player = [x |-> x, y |-> y, matrix |-> m, id |-> idOf(m)]
          /\ \/ /\ ~collide(arena, x, y, m)
                /\ \E dir \in {-1, 1} :
                      \E op \in {"rotatePlayer", "moveOnce"} :
                          fn = [op |-> op, calls |-> 0, dir |-> dir,
                                before |-> <<>>]
             \/ /\ InsideWalls(x, y, m)
                /\ fn = [op |-> "mergeToArena", calls |-> 0, dir |-> 0,
                         before |-> <<>>]
    /\ nextQueue = <<>>
    /\ bag = [bag |-> <<>>, index |-> 0]
    /\ holdPiece = NoKind /\ holdUsed = FALSE
    /\ score = 0 /\ lines = 0 /\ level = 0 /\ highscore = 0
    /\ gameOver = FALSE /\ paused = FALSE
    /\ \E g \in BOOLEAN : onGround = g /\ lockTimer = (IF g THEN 250 ELSE 0)
    /\ dropAccumulator = 0
    /\ soft = FALSE
    /\ dasState = [left |-> FALSE, right |-> FALSE, nextMoveIn |-> 0]
    /\ timers = 0
    /\ ghost = NoGhost

CallRotatePlayer ==
    /\ fn.op = "rotatePlayer" /\ fn.calls = 0
    /\ fn' = [fn EXCEPT !.calls = 1, !.before = St]
    /\ Commit(rotatePlayer(St, fn.dir))
    /\ UNCHANGED loaded

CallMerge ==
    /\ fn.op = "mergeToArena" /\ fn.calls = 0
    /\ fn' = [fn EXCEPT !.calls = 1, !.before = St]
    /\ Commit(mergeToArena(St))
    /\ UNCHANGED loaded

CallMoveOnce ==
    /\ fn.op = "moveOnce" /\ fn.calls = 0
    /\ fn' = [fn EXCEPT !.calls = 1, !.before = St]
    /\ Commit(moveOnce(St, fn.dir))
    /\ UNCHANGED loaded

NextPiece == CallRotatePlayer \/ CallMerge \/ CallMoveOnce

SpecPiece == InitPiece /\ [][NextPiece]_vars

(* ---------------- a game taken up above a stack, with a held kind ---------------- *)
\* A stack up to row 3 that lacks column 0.
GroundBoards == {gapBoard(ROWS - 3, {0})}
GroundDeltas == {250}

\* As InitSwap, above the stack.
InitGround ==
    /\ loaded = TRUE
    /\ arena \in GroundBoards
    /\ \E rnd \in RandomStreams, n \in 0..6 :
          LET b == shuffleBag(rnd)
              type == cyclic(b, n + 1)
              matrix == stamp(createPiece(type), PIECE_IDS[type])
          IN /\ player = [x |-> spawnX(matrix), y |-> -1,
                          matrix |-> matrix, id |-> PIECE_IDS[type]]
             /\ nextQueue = [i \in 1..QUEUE_SIZE |-> cyclic(b, n + 1 + i)]
             /\ bag = [bag |-> b, index |-> ((n + QUEUE_SIZE) % 7) + 1]
    /\ holdPiece \in {NoKind, "O", "T"} /\ holdUsed = FALSE
    /\ score = 0 /\ lines = 0 /\ level = 0 /\ highscore = 0
    /\ ghost = NoGhost
    /\ gameOver = FALSE /\ paused = FALSE
    /\ lockTimer = 0 /\ onGround = FALSE /\ dropAccumulator = 0
    /\ soft = FALSE
    /\ dasState = [left |-> FALSE, right |-> FALSE, nextMoveIn |-> 0]
    /\ timers = 0
    /\ fn = NoCall

MayGround == ghost.locks < MaxLocksGround /\ ghost.inputs < MaxInputsGround
NextGround ==
    \/ (MayGround /\ KeySoft)
    \/ (MayGround /\ KeyHold)
    \/ (MayGround /\ KeyRotate)
    \/ (MayGround /\ \E dir \in {-1, 1} : ButtonMove(dir))
    \/ (ghost.locks < MaxLocksGround /\ ghost.frames < MaxFramesGround
          /\ \E delta \in GroundDeltas : Frame(delta))

SpecGround == InitGround /\ [][NextGround]_vars

(* ---------------- the single-file variants: script.js and part_001 ---------------- *)
\* They keep a board, a piece, a drop counter and (script.js) a game-over
\* flag with its restart timer: arena, player, dropAccumulator, gameOver and
\* timers stand for them, and the other variables stay as they start.
dropInterval == 1000

\* collide(arena, player): an occupied cell of the shape over a cell that is
\* not 0; a cell off the board reads undefined, and undefined !== 0.
collidePlayer(a, p) ==
    \E y, x \in 1..Len(p.matrix) :
        /\ p.matrix[y][x] # 0
        /\ LET r == y - 1 + p.y
               c == x - 1 + p.x
           IN IF r < 0 \/ r >= ROWS \/ c < 0 \/ c >= COLS THEN TRUE
              ELSE a[r + 1][c + 1] # 0

\* rotate(matrix): transpose, then reverse each row.
rotate(matrix) ==
    LET t == transpose(matrix) IN [y \in 1..Len(t) |-> Reverse(t[y])]

\* The cells <<column, row>> under the occupied cells of the shape.
shapeCells(p) ==
    {<<p.x + c[2] - 1, p.y + c[1] - 1>> :
        c \in {d \in (1..Len(p.matrix)) \X (1..Len(p.matrix)) :
                  p.matrix[d[1]][d[2]] # 0}}

\* merge(arena, player): arena[y + pos.y][x + pos.x] = value, rows from the
\* top.  A column off the board is written beside the row (outside); a row
\* below the board has no array to write to and the assignment throws, after
\* the rows above have been written (thrown).  pos.y is never negative.
merge(s) ==
    LET cells == shapeCells(s.player)
        inside == {c \in cells : c[1] \in 0..(COLS - 1) /\ c[2] \in 0..(ROWS - 1)}
    IN [s EXCEPT !.arena = [y1 \in 1..ROWS |-> [x1 \in 1..COLS |->
                               IF <<x1 - 1, y1 - 1>> \in inside THEN 1
                               ELSE s.arena[y1][x1]]],
                 !.ghost.locks = @ + 1,
                 !.ghost.overwrote =
                     @ \/ \E c \in inside : s.arena[c[2] + 1][c[1] + 1] # 0,
                 !.ghost.outside =
                     @ \/ \E c \in cells : c[2] < ROWS /\ c[1] \notin 0..(COLS - 1),
                 !.ghost.thrown = \E c \in cells : c[2] >= ROWS]

\* for (y = arena.length - 1; y >= low; --y), with ++y after a removal;
\* low is 0 in script.js and 1 in part_001 (y > 0).
RECURSIVE arenaSweepFrom(_, _, _)
arenaSweepFrom(a, y, low) ==
    IF y < low THEN a
    ELSE IF \E x \in 1..COLS : a[y + 1][x] = 0 THEN arenaSweepFrom(a, y - 1, low)
    ELSE arenaSweepFrom(removeRow(a, y), y, low)

arenaSweep(s, v) ==
    [s EXCEPT !.arena = arenaSweepFrom(@, ROWS - 1, IF v = "script.js" THEN 0 ELSE 1)]

\* playerReset(): type is pieces[(pieces.length * Math.random()) | 0].
playerReset(s, v, type) ==
    LET matrix == createPiece(type)
        s1 == [s EXCEPT !.player = [x |-> (COLS \div 2) - (Len(matrix[1]) \div 2),
                                     y |-> 0, matrix |-> matrix, id |-> 1],
                        !.ghost.spawns = @ + 1]
    IN IF collidePlayer(s1.arena, s1.player)
         THEN IF v = "script.js"
                THEN [s1 EXCEPT !.arena = createMatrix(COLS, ROWS),
                                !.gameOver = TRUE, !.timers = @ + 1]
                ELSE [s1 EXCEPT !.arena = createMatrix(COLS, ROWS)]
         ELSE s1

\* playerDrop(): script.js sweeps and then resets, part_001 resets and then
\* sweeps.  A merge that throws ends the handler where it is.
playerDrop(s, v, type) ==
    IF v = "script.js" /\ s.gameOver THEN s
    ELSE LET s1 == [s EXCEPT !.player.y = @ + 1]
         IN IF collidePlayer(s1.arena, s1.player)
              THEN LET m == merge(s)
                   IN IF m.ghost.thrown THEN m
                      ELSE [(IF v = "script.js"
                               THEN playerReset(arenaSweep(m, v), v, type)
                               ELSE arenaSweep(playerReset(m, v, type), v))
                            EXCEPT !.dropAccumulator = 0]
              ELSE [s1 EXCEPT !.dropAccumulator = 0]

playerMove(s, v, dir) ==
    IF v = "script.js" /\ s.gameOver THEN s
    ELSE LET s1 == [s EXCEPT !.player.x = @ + dir]
         IN IF collidePlayer(s1.arena, s1.player) THEN s ELSE s1

\* update(time) of the single-file variants
updateSimple(s, v, delta, type) ==
    IF v = "script.js" /\ s.gameOver THEN s
    ELSE LET s1 == [s EXCEPT !.dropAccumulator = @ + delta]
         IN IF s1.dropAccumulator > dropInterval THEN playerDrop(s1, v, type)
            ELSE s1

\* An empty board, and a stack up to row 2 whose top row lacks columns 5..7
\* and whose other rows lack column 0.
SimpleBoards ==
    {createMatrix(COLS, ROWS),
     [y1 \in 1..ROWS |-> [x1 \in 1..COLS |->
        IF (y1 - 1 = 2 /\ (x1 - 1) \notin 5..7) \/ (y1 - 1 > 2 /\ x1 - 1 # 0)
          THEN 1 ELSE 0]]}

SimpleDeltas == {600}

\* A game taken up right after playerReset.
InitSimple ==
    /\ loaded = TRUE
    /\ arena \in SimpleBoards
    /\ \E type \in Kinds :
          /\ player = [x |-> (COLS \div 2) - (Len(createPiece(type)[1]) \div 2),
                       y |-> 0, matrix |-> createPiece(type), id |-> 1]
          /\ ~collidePlayer(arena, player)
    /\ nextQueue = <<>>
    /\ bag = [bag |-> <<>>, index |-> 0]
    /\ holdPiece = NoKind /\ holdUsed = FALSE
    /\ score = 0 /\ lines = 0 /\ level = 0 /\ highscore = 0
    /\ gameOver = FALSE /\ paused = FALSE
    /\ lockTimer = 0 /\ onGround = FALSE /\ dropAccumulator = 0
    /\ soft = FALSE
    /\ dasState = [left |-> FALSE, right |-> FALSE, nextMoveIn |-> 0]
    /\ timers = 0
    /\ ghost = NoGhost
    /\ fn = NoCall

\* keydown ArrowLeft / ArrowRight, left-btn / right-btn
MoveSimple(v, dir) == Input("move", playerMove(St, v, dir))

\* keydown ArrowDown, down-btn
DropSimple(v) == \E type \in Kinds : Input("drop", playerDrop(St, v, type))

\* keydown ArrowUp (script.js returns when gameOver), rotate-btn
RotateSimple(v) ==
    \E key \in BOOLEAN :
        Input("rotate", IF key /\ v = "script.js" /\ gameOver THEN St
                        ELSE [St EXCEPT !.player.matrix = rotate(@)])

\* requestAnimationFrame(update)
FrameSimple(v, delta) ==
    \E type \in Kinds :
        Event("frame", [updateSimple(St, v, delta, type) EXCEPT !.ghost.frames = @ + 1])

\* script.js: setTimeout(() => { gameOver = false; playerReset(); }, 1200)
TimerSimple ==
    /\ timers > 0
    /\ \E type \in Kinds :
          Event("timer", playerReset([St EXCEPT !.timers = @ - 1, !.gameOver = FALSE],
                                     "script.js", type))

\* The run is followed up to the first write off the board.
SimpleLive == ~ghost.thrown /\ ~ghost.outside
MaySimple == SimpleLive /\ ghost.inputs < MaxInputsSimple /\ ghost.locks < MaxLocksSimple
MayFrameSimple == SimpleLive /\ ghost.frames < MaxFramesSimple /\ ghost.locks < MaxLocksSimple

NextScript ==
    \/ (MaySimple /\ \E dir \in {-1, 1} : MoveSimple("script.js", dir))
    \/ (MaySimple /\ DropSimple("script.js"))
    \/ (MaySimple /\ RotateSimple("script.js"))
    \/ (MayFrameSimple /\ \E delta \in SimpleDeltas : FrameSimple("script.js", delta))
    \/ TimerSimple

SpecScript == InitSimple /\ [][NextScript]_vars

NextPart1 ==
    \/ (MaySimple /\ \E dir \in {-1, 1} : MoveSimple("part_001", dir))
    \/ (MaySimple /\ DropSimple("part_001"))
    \/ (MaySimple /\ RotateSimple("part_001"))
    \/ (MayFrameSimple /\ \E delta \in SimpleDeltas : FrameSimple("part_001", delta))

SpecPart1 == InitSimple /\ [][NextPart1]_vars

(* ================= properties ================= *)
isFull(row) == \A x \in 1..Len(row) : row[x] # 0
notFull(row) == ~isFull(row)
fullRows(a) == {y \in 0..(Len(a) - 1) : isFull(a[y + 1])}

\* The board cells <<column, row>> under the occupied cells of a shape.
Occupied(px, py, matrix) ==
    {<<px + x - 1, py + y - 1>> : <<y, x>> \in
        {c \in (1..Len(matrix)) \X (1..Len(matrix)) : matrix[c[1]][c[2]] # 0}}

Blocked(a, c) ==
    \/ c[1] < 0 \/ c[1] >= COLS \/ c[2] >= ROWS
    \/ (c[2] >= 0 /\ a[c[2] + 1][c[1] + 1] # 0)

(* ---------------- the game: what a step must do ---------------- *)
\* No occupied cell of the shape, moved down by d rows, is blocked.
Free(a, p, d) == \A c \in Occupied(p.x, p.y + d, p.matrix) : ~Blocked(a, c)

\* The board with the cells under the shape set to the piece's id.
Merged(a, p) ==
    [y1 \in 1..ROWS |-> [x1 \in 1..COLS |->
        IF <<x1 - 1, y1 - 1>> \in Occupied(p.x, p.y, p.matrix) THEN p.id
        ELSE a[y1][x1]]]

\* The board without its full rows, as many empty rows on top.
Swept(a) == [i \in 1..Cardinality(fullRows(a)) |-> emptyRow] \o SelectSeq(a, notFull)

\* The largest d with offsets 1..d all free.
DropOf(a, p) ==
    CHOOSE d \in 0..(ROWS + 4) : (\A i \in 1..d : Free(a, p, i)) /\ ~Free(a, p, d + 1)

Playing == loaded /\ player.matrix # <<>> /\ ~paused /\ ~gameOver

\* C3: from init or resetGame on, every complete block of seven delivered
\* kinds holds each of the seven kinds exactly once.
C3_BagBlocks ==
    \A b \in 0..((Len(ghost.delivered) \div 7) - 1) :
        {ghost.delivered[7 * b + i] : i \in 1..7} = Kinds

\* C4: a holdSwap call while holdUsed is set changes nothing of the game; a
\* call that changes the piece or the hold slot leaves holdUsed set; and
\* holdUsed is cleared only by a step that spawns a piece.
C4_HoldOnce ==
    [][/\ (loaded /\ ghost'.op = "hold" /\ holdUsed) =>
             /\ player' = player /\ holdPiece' = holdPiece /\ holdUsed'
             /\ arena' = arena /\ nextQueue' = nextQueue
             /\ ghost'.spawns = ghost.spawns
       /\ (loaded /\ ghost'.op = "hold"
                  /\ (player' # player \/ holdPiece' # holdPiece)) => holdUsed'
       /\ (holdUsed /\ ~holdUsed') => ghost'.spawns > ghost.spawns]_vars

\* C4 witness: the hold slot was swapped with the active piece, and a further
\* call before the next spawn was refused.
C4_Witness ==
    /\ ghost.op = "hold" /\ ghost.swaps >= 1 /\ ghost.denied >= 1
    /\ holdUsed /\ holdPiece # NoKind

\* C6: a successful move or rotation by an input sets lockTimer to 0, and a
\* piece that was moved or rotated is locked by the lock delay only once
\* LOCK_DELAY ms of frame time have passed since its last successful move or
\* rotation.
C6_MoveReset ==
    /\ [][(/\ Playing
           /\ ghost'.op \in {"keydown-move", "button-move", "rotate"}
           /\ (player'.x # player.x \/ player'.matrix # player.matrix))
          => (lockTimer' = 0 /\ ghost'.sinceMove = 0)]_vars
    /\ [](ghost.locked => (ghost.lockAge = -1 \/ ghost.lockAge >= LOCK_DELAY))

\* C6 witness: a piece that had rested on the ground was moved, which threw
\* away lock time, and was locked LOCK_DELAY ms after that move.
C6_Witness ==
    /\ ghost.op = "frame" /\ ghost.locked
    /\ ghost.lockDiscarded > 0 /\ ghost.lockAge = LOCK_DELAY

\* C7: in a frame that starts with the piece resting on the ground, and in
\* which no autorepeat move succeeds, the piece is locked (merged, swept, the
\* next piece spawned, lockTimer 0 and onGround false) iff lockTimer plus the
\* frame's time reaches LOCK_DELAY; otherwise lockTimer grows by that time.
C7_LockFires ==
    [][(/\ Playing /\ onGround /\ ~Free(arena, player, 1)
        /\ ghost'.op = "frame" /\ ghost'.frames = ghost.frames + 1
        /\ ~ghost'.autoMoved)
       => IF lockTimer + ghost'.delta >= LOCK_DELAY
            THEN /\ ghost'.locked
                 /\ arena' = Swept(Merged(arena, player))
                 /\ ghost'.locks = ghost.locks + 1
                 /\ ghost'.spawns = ghost.spawns + 1
                 /\ player'.id = PIECE_IDS[Head(nextQueue)]
                 /\ lockTimer' = 0 /\ ~onGround'
            ELSE /\ ~ghost'.locked
                 /\ arena' = arena /\ player' = player
                 /\ ghost'.locks = ghost.locks
                 /\ lockTimer' = lockTimer + ghost'.delta /\ onGround']_vars

\* C7 witness: a frame of 250 ms took lockTimer from 250 to exactly
\* LOCK_DELAY and locked the piece.
C7_Witness ==
    /\ ghost.op = "frame" /\ ghost.locked
    /\ ghost.delta = 250 /\ ghost.lockTime = LOCK_DELAY
    /\ ghost.locks = 1 /\ lockTimer = 0 /\ ~onGround

\* C8: a hard drop moves the piece down by the largest d whose offsets 1..d
\* are all free, merges it there, sweeps and spawns the next piece in the same
\* step, whatever lockTimer and onGround are; on an empty board the lowest
\* occupied cell of the piece ends on row ROWS - 1.
C8_HardDrop ==
    [][(Playing /\ ghost'.op = "hardDrop")
       => LET d == DropOf(arena, player)
              landed == [player EXCEPT !.y = @ + d]
          IN /\ ghost'.dropped = d
             /\ arena' = Swept(Merged(arena, landed))
             /\ ghost'.locks = ghost.locks + 1
             /\ ghost'.spawns = ghost.spawns + 1
             /\ player'.id = PIECE_IDS[Head(nextQueue)]
             /\ (arena = createMatrix(COLS, ROWS)) =>
                   /\ \E c \in Occupied(landed.x, landed.y, landed.matrix) :
                         c[2] = ROWS - 1
                   /\ \A c \in Occupied(landed.x, landed.y, landed.matrix) :
                         c[2] <= ROWS - 1 /\ arena'[c[2] + 1][c[1] + 1] = player.id]_vars

\* C8 witness: a hard drop of a piece resting on the ground with lock time
\* running merged it where it was, on a board that already held a piece.
C8_Witness ==
    /\ ghost.op = "hardDrop" /\ ghost.dropGround /\ ghost.dropTimer > 0
    /\ ghost.dropped = 0 /\ ghost.locks = 2

\* The state resetGame leaves: empty board, zero score, lines and level, empty
\* hold slot, flags cleared, queue and piece drawn from a fresh bag, and the
\* piece free where it spawned.
ResetState ==
    /\ arena = createMatrix(COLS, ROWS)
    /\ score = 0 /\ lines = 0 /\ level = 0
    /\ holdPiece = NoKind /\ ~holdUsed /\ ~gameOver
    /\ Len(nextQueue) = QUEUE_SIZE
    /\ Len(bag.bag) = 7 /\ {bag.bag[i] : i \in 1..7} = Kinds
    /\ bag.index = QUEUE_SIZE + 1
    /\ <<kindOfId(player.id)>> \o nextQueue = SubSeq(bag.bag, 1, QUEUE_SIZE + 1)
    /\ player.matrix = stamp(createPiece(kindOfId(player.id)), player.id)
    /\ Free(arena, player, 0)

\* C9: a spawn that puts the piece on a blocked position sets gameOver and
\* leaves a timer pending; the timer's callback leaves the reset state; and
\* every game over leads to the reset state.
C9_GameOverResets ==
    /\ [][(ghost'.spawns > ghost.spawns /\ ~Free(arena', player', 0))
          => (gameOver' /\ timers' > 0)]_vars
    /\ [][(loaded /\ timers > 0 /\ ghost'.op = "timer") => ResetState']_vars
    /\ (gameOver ~> ResetState)

\* C9 witness: the game ended with pieces on the board, and the timer's
\* callback has left the reset state.
C9_Witness ==
    /\ ghost.op = "timer" /\ ghost.resets = 1 /\ ghost.inputs = 0
    /\ ghost.locks > 0 /\ ResetState

\* C13: while gameOver is set, no input event (move, rotate, hard drop, hold,
\* soft drop) and no frame changes the board, the active piece, the hold slot,
\* the score, lockTimer or onGround.
C13_GameOverFrozen ==
    [][(/\ loaded /\ gameOver
        /\ ghost'.op \in {"keydown-move", "keyup-move", "button-move", "soft",
                          "rotate", "hardDrop", "hold", "frame"})
       => /\ arena' = arena /\ player' = player /\ holdPiece' = holdPiece
          /\ score' = score /\ lockTimer' = lockTimer /\ onGround' = onGround]_vars

\* C14: once init has spawned the first piece, and after every later spawn,
\* the lookahead queue holds exactly QUEUE_SIZE kinds.
C14_QueueRestored == loaded => Len(nextQueue) = QUEUE_SIZE

\* C15: between two resets score, lines and level never decrease, and level
\* is lines \div 10 in every state.
C15_ScoreMonotone ==
    /\ [][(ghost'.resets = ghost.resets)
          => (score' >= score /\ lines' >= lines /\ level' >= level)]_vars
    /\ [](level = lines \div 10)

\* C15 witness: a clear took the lines from 9 past 10 and the level from 0
\* to 1, within one game.
C15_Witness ==
    /\ ghost.resets = 0 /\ ghost.cleared >= 1 /\ ghost.locks = 1
    /\ lines >= 10 /\ level = 1 /\ score > singles(MaxLinesClear)

\* C16: highscore is at least score, is the larger of the stored highscore
\* and the largest score seen, and never decreases.
C16_HighscoreMax ==
    /\ [](highscore >= score /\ highscore = Max(ghost.stored, ghost.best))
    /\ [][highscore' >= highscore]_vars

\* C16 witness: a clear raised the highscore above the stored one, and a
\* reset that zeroed the score left it there.
C16_Witness ==
    /\ ghost.resets >= 1 /\ score = 0
    /\ ghost.locks >= 1 /\ ghost.cleared >= 1
    /\ highscore > ghost.stored /\ highscore = ghost.best

\* C18: holdSwap with a kind H in the hold slot, holdUsed false and the game
\* neither paused nor over puts the active kind in the slot, makes the active
\* piece a fresh H stamped with its id at column COLS \div 2 - width \div 2
\* and row -1, sets holdUsed, leaves the queue alone and does not set
\* gameOver, colliding or not.
C18_HoldSwaps ==
    [][(Playing /\ ~holdUsed /\ holdPiece # NoKind /\ ghost'.op = "hold")
       => LET H == holdPiece
              fresh == [y \in 1..Len(createPiece(H)) |->
                          [x \in 1..Len(createPiece(H)) |->
                              IF createPiece(H)[y][x] # 0 THEN PIECE_IDS[H] ELSE 0]]
          IN /\ holdPiece' = kindOfId(player.id)
             /\ player' = [x |-> (COLS \div 2) - (Len(fresh[1]) \div 2), y |-> -1,
                           matrix |-> fresh, id |-> PIECE_IDS[H]]
             /\ holdUsed' /\ nextQueue' = nextQueue
             /\ ~gameOver' /\ timers' = timers /\ arena' = arena]_vars

\* C18 witness: a swap put the held piece on a blocked spawn position, and
\* the game is not over.
C18_Witness ==
    /\ ghost.op = "hold" /\ ghost.swaps = 1 /\ holdUsed /\ ~gameOver
    /\ ~Free(arena, player, 0)
    /\ player.y = -1 /\ player.x = spawnX(player.matrix)

\* C19: holdSwap with an empty hold slot stores the active kind, spawns the
\* next piece of the queue, and leaves holdUsed false, so that the new piece
\* can be held in turn.
C19_EmptyHoldFree ==
    [][(Playing /\ ~holdUsed /\ holdPiece = NoKind /\ ghost'.op = "hold")
       => /\ holdPiece' = kindOfId(player.id)
          /\ player'.id = PIECE_IDS[Head(nextQueue)]
          /\ ~holdUsed']_vars

\* C20: a frame makes an automatic move only in the direction of a key that
\* is down and has been down for at least DAS_DELAY ms, and at least ARR ms
\* after the automatic move before it.
C20_DasTiming ==
    (ghost.op = "frame" /\ ghost.auto # 0)
    => /\ dasState[dirName(ghost.auto)]
       /\ ghost.autoHeld >= DAS_DELAY
       /\ (ghost.autoGap < 0 \/ ghost.autoGap >= ARR)

\* C21: a frame of a paused game leaves the gravity accumulator, the lock
\* delay counter, the ground flag, the active piece, the board and the time
\* left until the next automatic move as they were.
C21_PauseLossless ==
    [][(loaded /\ paused /\ ghost'.op = "frame")
       => /\ dropAccumulator' = dropAccumulator /\ lockTimer' = lockTimer
          /\ onGround' = onGround /\ player' = player /\ arena' = arena
          /\ dasState' = dasState]_vars

\* C22: moveOnce(dir) changes nothing when the shape is blocked one column
\* over; otherwise it adds dir to the column, zeroes lockTimer and clears
\* onGround, and leaves row, shape and board alone.
C22_MoveReverts ==
    (fn.op = "moveOnce" /\ fn.calls = 1) =>
        LET b == fn.before IN
        IF Free(b.arena, [b.player EXCEPT !.x = @ + fn.dir], 0)
          THEN /\ player = [b.player EXCEPT !.x = @ + fn.dir]
               /\ lockTimer = 0 /\ ~onGround /\ arena = b.arena
          ELSE /\ player = b.player /\ arena = b.arena
               /\ lockTimer = b.lockTimer /\ onGround = b.onGround

\* C22 witness: a piece on the ground with lock time running, off the walls,
\* is blocked by the stack beside it and stays as it was.
C22_Witness ==
    /\ fn.op = "moveOnce" /\ fn.calls = 1
    /\ ~Free(fn.before.arena, [fn.before.player EXCEPT !.x = @ + fn.dir], 0)
    /\ InsideWalls(player.x + fn.dir, player.y, player.matrix)
    /\ player = fn.before.player /\ onGround /\ lockTimer = 250

\* C23: a sweep never clears more than four rows, and a lock whose sweep
\* cleared rows gave points.
C23_ClearAtMostFour ==
    /\ [](ghost.cleared \in 0..4)
    /\ [][(ghost'.locks = ghost.locks + 1 /\ ghost'.cleared > 0)
          => score' > score]_vars

\* C23 witness: an I dropped into a well deeper than four rows cleared four
\* of them and left the rest of the well standing.
C23_Witness ==
    /\ ghost.cleared = 4 /\ ghost.locks = 1
    /\ \E y1 \in 1..ROWS :
          arena[y1][7] = 0 /\ \A x1 \in (1..COLS) \ {7} : arena[y1][x1] # 0

\* C24: when playerDrop locks a piece that is free where it stands, the
\* board becomes the merged board without its full rows, and the next piece
\* is tested on that board: the board is wiped only if the new piece collides
\* there.
C24_SpawnAfterSweep ==
    [][(ghost'.locks = ghost.locks + 1 /\ Free(arena, player, 0))
       => LET b == Swept(Merged(arena, player))
          IN arena' = IF Free(b, player', 0) THEN b ELSE createMatrix(COLS, ROWS)]_vars

\* C25: after a rotate input the active piece is free where it stands, and
\* no merge writes off the board or onto an occupied cell.
C25_RotateRejected ==
    /\ [][(ghost'.op = "rotate") => Free(arena', player', 0)]_vars
    /\ [](~ghost.overwrote /\ ~ghost.outside /\ ~ghost.thrown)

\* C26: a frame whose lock delay merges the piece merges it where it rests:
\* one row further down it is blocked.
C26_LockOnSurface == ghost.locked => ghost.lockRested

\* C27: while a piece is active and the game is not over, no occupied cell of
\* its shape is beside the board, below it, or on a non-empty board cell.
C27_ActiveFree ==
    (loaded /\ player.matrix # <<>> /\ ~gameOver) => Free(arena, player, 0)

\* C28: the callback of the game-over timer resets only a game that is over.
C28_TimerResetsOver ==
    [][(ghost'.op = "timer") => gameOver]_vars

\* C29: between operations no row of the board is completely filled.
C29_NoFullRow == loaded => fullRows(arena) = {}

\* C29 witness: a hard drop filled several rows at once, and the sweep left
\* a stack without a full row.
C29_Witness ==
    /\ ghost.op = "hardDrop" /\ ghost.cleared >= 2
    /\ arena # createMatrix(COLS, ROWS) /\ fullRows(arena) = {}

\* The shape turned clockwise (dir > 0) or counter-clockwise.
Turned(matrix, dir) ==
    LET n == Len(matrix)
    IN [y \in 1..n |-> [x \in 1..n |->
          IF dir > 0 THEN matrix[n + 1 - x][y] ELSE matrix[x][n + 1 - y]]]

claimKicks == <<0, 1, -1, 2, -2>>

\* The turned shape of the piece before the call is free at offset k.
KickFree(b, dir, k) ==
    \A c \in Occupied(b.player.x + k, b.player.y, Turned(b.player.matrix, dir)) :
        ~Blocked(b.arena, c)

C12_RotateReverts ==
    (/\ fn.op = "rotatePlayer" /\ fn.calls = 1
     /\ \A i \in 1..5 : ~KickFree(fn.before, fn.dir, claimKicks[i]))
    => St = fn.before

\* C12 witness: a piece in the well, on the ground with lock time running,
\* whose turned shape differs and is blocked at all five offsets.
C12_Witness ==
    /\ fn.op = "rotatePlayer" /\ fn.calls = 1
    /\ \A i \in 1..5 : ~KickFree(fn.before, fn.dir, claimKicks[i])
    /\ Turned(fn.before.player.matrix, fn.dir) # fn.before.player.matrix
    /\ onGround /\ lockTimer = 250 /\ player = fn.before.player

\* C17: mergeToArena sets the board cells under the occupied cells of the
\* shape to the piece's identifier, skips the occupied cells that lie off the
\* board, and leaves every other cell and the rest of the state alone.
C17_MergeCells ==
    (fn.op = "mergeToArena" /\ fn.calls = 1) =>
        LET b == fn.before IN
        /\ \A y1 \in 1..ROWS, x1 \in 1..COLS :
              arena[y1][x1] =
                 IF <<x1 - 1, y1 - 1>> \in
                        Occupied(b.player.x, b.player.y, b.player.matrix)
                   THEN b.player.id ELSE b.arena[y1][x1]
        /\ Len(arena) = ROWS /\ \A y1 \in 1..ROWS : Len(arena[y1]) = COLS
        /\ [St EXCEPT !.arena = b.arena, !.ghost = b.ghost] = b

\* C17 witness: a merged piece with one occupied cell above the top, which
\* was skipped, and one in row 0, which was written.
C17_Witness ==
    /\ fn.op = "mergeToArena" /\ fn.calls = 1
    /\ \E c \in Occupied(player.x, player.y, player.matrix) : c[2] < 0
    /\ \E c \in Occupied(player.x, player.y, player.matrix) :
          c[2] = 0 /\ arena[1][c[1] + 1] = player.id
                   /\ fn.before.arena[1][c[1] + 1] = 0

\* C1: collide is true iff some occupied cell of the shape lies outside the
\* columns, at or below row ROWS, or on a non-empty board cell of a row >= 0;
\* cells above the top and inside the columns never collide.
C1_CollideIff ==
    (fn.op = "collide" /\ fn.calls = 1) =>
        (fn.result <=> \E c \in Occupied(player.x, player.y, player.matrix) :
                          Blocked(arena, c))

\* C1 witness: a shape with a cell above the top, over a filled column of a
\* board filled to row 0, and collide said no.
C1_Witness ==
    /\ fn.op = "collide" /\ fn.calls = 1 /\ ~fn.result
    /\ \E c \in Occupied(player.x, player.y, player.matrix) :
          c[2] < 0 /\ arena[1][c[1] + 1] # 0

\* C2: sweep removes exactly the full rows, puts as many empty rows on top,
\* keeps the other rows in content and order, and counts the full rows.
C2_SweepRows ==
    (fn.op = "sweep" /\ fn.calls = 1) =>
        LET b == fn.before.arena
            k == Cardinality(fullRows(b))
        IN /\ arena = [i \in 1..k |-> emptyRow] \o SelectSeq(b, notFull)
           /\ ghost.cleared = k

\* C2 witness: exactly rows 2 and 5 were full, and the count is 2.
C2_Witness ==
    /\ fn.op = "sweep" /\ fn.calls = 1
    /\ fullRows(fn.before.arena) = {2, 5}
    /\ ghost.cleared = 2
    /\ arena[1] = emptyRow /\ arena[2] = emptyRow /\ arena[3] = fn.before.arena[1]

claimScores == <<40, 100, 300, 1200>>

\* C5: a sweep of n rows, 1 <= n <= 4, adds claimScores[n] * (level + 1) with
\* the level before the clear, adds n to lines and sets level to lines \div 10;
\* a sweep of no row leaves score, lines and level alone.
C5_SweepScore ==
    (fn.op = "sweep" /\ fn.calls = 1) =>
        LET n == Cardinality(fullRows(fn.before.arena))
        IN /\ (n \in 1..4) =>
                /\ score = fn.before.score + claimScores[n] * (fn.before.level + 1)
                /\ lines = fn.before.lines + n
                /\ level = lines \div 10
           /\ (n = 0) =>
                /\ score = fn.before.score /\ lines = fn.before.lines
                /\ level = fn.before.level

\* C5 witness: four rows cleared at level 0 with nine lines gave 1200 points,
\* the multiplier of the level before the clear, and took the level to 1.
C5_Witness ==
    /\ fn.op = "sweep" /\ fn.calls = 1
    /\ fn.before.lines = 9 /\ fn.before.level = 0
    /\ Cardinality(fullRows(fn.before.arena)) = 4
    /\ score = fn.before.score + 1200 /\ lines = 13 /\ level = 1

\* C10: four calls of rotateMatrix with one direction give the shape back.
C10_RotateFour ==
    (fn.op = "rotate" /\ fn.calls = 4) => player.matrix = fn.original

\* C10 witness: four counter-clockwise turns of a shape that a single turn
\* changes.
C10_Witness ==
    /\ fn.op = "rotate" /\ fn.calls = 4 /\ fn.dir = -1
    /\ rotateMatrix(fn.original, -1) # fn.original
    /\ Len(fn.original) = 4
====
